---- MODULE Spec2Model ----
(***************************************************************************)
(* Model of ImportOlxHousePrice.py: the scalar converters, the row         *)
(* validator, the batch loader insert_rows and the top-level main().       *)
(*                                                                         *)
(* A text (a Python str) is a sequence of one-character strings.  A        *)
(* converter's outcome is a record with a tag: "None", "Float", "Int",     *)
(* "Str", or "Raise" when the call leaves the converter by an exception.   *)
(* Numeric literals of the model are at most a few characters long, so a   *)
(* finite float is kept exactly as sign, decimal mantissa and number of    *)
(* fraction digits (no literal of the model needs more than the 53 bits    *)
(* of a binary64 mantissa to truncate correctly).                          *)
(***************************************************************************)
EXTENDS Integers, Sequences, FiniteSets, TLC

VARIABLES
    \* --- converter harness ---
    value,            \* the raw text handed to a converter
    conv,             \* the converter applied to it ("" before the call)
    conv_result,      \* what the call produced
    \* --- row validator harness ---
    row,              \* the raw record handed to validate_and_convert_row
    vresult,          \* its return value (converted, is_valid, errors, raw_values)
    \* --- main() / insert_rows ---
    pc,               \* position of main()
    conn,             \* the pyodbc connection: "none", "open", "closed"
    exit_code,        \* -1 while running, 0 normal return, 1 sys.exit(1)
    csv_file,         \* the input file on disk
    rows,             \* read_csv's list of (row number, record)
    idx,              \* number of rows the loop of insert_rows has consumed
    inserted,
    rejected,
    rejected_samples,
    values,           \* the tuple last passed to cursor.execute(insert_sql, ...)
    executed,         \* the row numbers whose insert was attempted, in order
    sink_failures,    \* number of inserts the Sink refused (reported inline)
    commits,          \* number of cursor.commit() calls made by insert_rows
    summary           \* the printed import summary, or the empty sequence

conv_vars == <<value, conv, conv_result>>
row_vars == <<row, vresult>>
main_vars == <<pc, conn, exit_code, csv_file, rows, idx, inserted, rejected,
               rejected_samples, values, executed, sink_failures, commits, summary>>
vars == <<value, conv, conv_result, row, vresult, pc, conn, exit_code, csv_file,
          rows, idx, inserted, rejected, rejected_samples, values, executed,
          sink_failures, commits, summary>>

-----------------------------------------------------------------------------
(* Bounds of the model *)

\* longest raw text handed to a converter in the converter harness
MaxLen == 3
\* number of columns of a raw record that differ from the well-formed record
MaxBadCols == 2
\* most data rows in the input file
MaxRows == 22

-----------------------------------------------------------------------------
(* Python values *)

None == [tag |-> "None"]
Raise(e) == [tag |-> "Raise", exc |-> e]
FloatVal(k, n, m, f) == [tag |-> "Float", kind |-> k, neg |-> n, mant |-> m, frac |-> f]
IntVal(i) == [tag |-> "Int", ival |-> i]
StrVal(s) == [tag |-> "Str", sval |-> s]

Digits == {"0", "2", "5", "6"}
Chars == Digits \cup {" ", "-", ",", ".", "i", "n", "f", "a"}

DigitVal(c) == CASE c = "0" -> 0 [] c = "2" -> 2 [] c = "5" -> 5 [] c = "6" -> 6

RECURSIVE Pow10(_)
Pow10(n) == IF n = 0 THEN 1 ELSE 10 * Pow10(n - 1)

\* str.strip(): leading and trailing whitespace removed
RECURSIVE LStrip(_)
LStrip(s) == IF s # << >> /\ Head(s) = " " THEN LStrip(Tail(s)) ELSE s

RECURSIVE RStrip(_)
RStrip(s) == IF s # << >> /\ s[Len(s)] = " " THEN RStrip(SubSeq(s, 1, Len(s) - 1)) ELSE s

Strip(s) == RStrip(LStrip(s))

\* str.replace(a, b) for one-character a and b
RECURSIVE Replace(_, _, _)
Replace(s, a, b) ==
    IF s = << >> THEN << >>
    ELSE <<IF Head(s) = a THEN b ELSE Head(s)>> \o Replace(Tail(s), a, b)

\* the decimal digits of s, read as one natural number (the "." skipped)
RECURSIVE Mantissa(_, _)
Mantissa(s, acc) ==
    IF s = << >> THEN acc
    ELSE IF Head(s) = "." THEN Mantissa(Tail(s), acc)
    ELSE Mantissa(Tail(s), 10 * acc + DigitVal(Head(s)))

DotPos(s) == IF \E i \in 1..Len(s) : s[i] = "."
             THEN CHOOSE i \in 1..Len(s) : s[i] = "."
             ELSE 0

Dots(s) == {i \in 1..Len(s) : s[i] = "."}
Digs(s) == {i \in 1..Len(s) : s[i] \in Digits}

\* the literal after its optional sign: inf, nan, or decimal digits with at
\* most one point and at least one digit; anything else is a ValueError
Unsigned(neg, body) ==
    IF body = <<"i", "n", "f">> THEN FloatVal("inf", neg, 0, 0)
    ELSE IF body = <<"n", "a", "n">> THEN FloatVal("nan", FALSE, 0, 0)
    ELSE IF /\ Digs(body) # {}
            /\ Cardinality(Dots(body)) <= 1
            /\ Dots(body) \cup Digs(body) = 1..Len(body)
    THEN FloatVal("fin", neg, Mantissa(body, 0),
                  IF Dots(body) = {} THEN 0 ELSE Len(body) - DotPos(body))
    ELSE Raise("ValueError")

Signed(t) ==
    IF t # << >> /\ Head(t) = "-" THEN Unsigned(TRUE, Tail(t)) ELSE Unsigned(FALSE, t)

\* float(s) of the built-in, which ignores surrounding whitespace
PyFloat(s) == Signed(Strip(s))

\* int(x) of a float: truncation toward zero; infinities and NaN raise
PyInt(x) ==
    IF x.tag = "Raise" THEN x
    ELSE IF x.kind = "inf" THEN Raise("OverflowError")
    ELSE IF x.kind = "nan" THEN Raise("ValueError")
    ELSE IntVal(IF x.neg
                THEN 0 - (x.mant \div Pow10(x.frac))
                ELSE x.mant \div Pow10(x.frac))

\* except (ValueError, InvalidOperation): return None
Caught(r) == IF r.tag = "Raise" /\ r.exc \in {"ValueError", "InvalidOperation"}
             THEN None ELSE r

\* the converters below the two emptiness tests, on the stripped text
FloatOfStripped(s) ==
    IF s = << >> THEN None ELSE Caught(PyFloat(Replace(s, ",", ".")))

IntOfStripped(s) ==
    IF s = << >> THEN None ELSE Caught(PyInt(PyFloat(Replace(s, ",", "."))))

\* if 0 <= int_val <= 255: return int_val; return None
InRange(r) ==
    IF r.tag = "Int"
    THEN (IF 0 <= r.ival /\ r.ival <= 255 THEN r ELSE None)
    ELSE Caught(r)

TinyintOfStripped(s) ==
    IF s = << >> THEN None ELSE InRange(PyInt(PyFloat(Replace(s, ",", "."))))

_parse_float(v) == IF v = << >> THEN None ELSE FloatOfStripped(Strip(v))

_parse_int(v) == IF v = << >> THEN None ELSE IntOfStripped(Strip(v))

_parse_tinyint(v) == IF v = << >> THEN None ELSE TinyintOfStripped(Strip(v))

\* lambda x: x[:50] if x else None
StrWidth == 50
_truncate(v) ==
    IF v = << >> THEN None
    ELSE StrVal(SubSeq(v, 1, IF Len(v) < StrWidth THEN Len(v) ELSE StrWidth))

Converters == {"float", "int", "tinyint", "str"}

Convert(kind, v) ==
    CASE kind = "float" -> _parse_float(v)
      [] kind = "int" -> _parse_int(v)
      [] kind = "tinyint" -> _parse_tinyint(v)
      [] kind = "str" -> _truncate(v)

-----------------------------------------------------------------------------
(* Schema *)

\* COLUMN_DEFS, in declaration order: <<name, converter>>
COLUMN_DEFS ==
    << <<"price", "float">>, <<"price_per_meter", "float">>, <<"offer_type", "str">>,
       <<"floor", "tinyint">>, <<"area", "float">>, <<"rooms", "tinyint">>,
       <<"offer_type_of_building", "str">>, <<"market", "str">>, <<"city_name", "str">>,
       <<"voivodeship", "str">>, <<"month", "str">>, <<"year", "int">>,
       <<"population", "int">>, <<"longitude", "float">>, <<"latitude", "float">> >>

ColumnNames == {COLUMN_DEFS[i][1] : i \in 1..Len(COLUMN_DEFS)}

\* position of a column in COLUMN_DEFS
ColumnIndex ==
    [col \in ColumnNames |-> CHOOSE j \in 1..Len(COLUMN_DEFS) : COLUMN_DEFS[j][1] = col]

REQUIRED_FIELDS ==
    <<"price", "price_per_meter", "rooms", "year", "population", "longitude",
      "latitude", "offer_type", "market", "city_name", "voivodeship">>

Required == {REQUIRED_FIELDS[i] : i \in 1..Len(REQUIRED_FIELDS)}

-----------------------------------------------------------------------------
(* Row validator *)

\* str(e) of the exception a converter let escape
ExcText(r) == IF r.exc = "OverflowError"
              THEN "cannot convert float infinity to integer"
              ELSE r.exc

\* the raw value taken without .strip()
RawValueUnstripped(r, col) == IF col \in DOMAIN r THEN r[col] ELSE << >>

\* raw_value = row.get(col_name, "").strip() if col_name in row else ""
RawValue(r, col) == IF col \in DOMAIN r THEN Strip(r[col]) ELSE << >>

\* converted_value: None when the converter raised (lines 120-123)
ConvertedValue(applied) == IF applied.tag = "Raise" THEN None ELSE applied

\* what one pass of the loop over COLUMN_DEFS leaves behind (lines 122-131):
\* the raw value, the converted value and the errors appended
Recorded(col, raw, applied) ==
    [raw |-> raw,
     value |-> ConvertedValue(applied),
     errors |->
        (IF applied.tag = "Raise"
         THEN << [col |-> col, msg |-> ExcText(applied), raw |-> raw] >>
         ELSE << >>)
        \o
        (IF col \in Required /\ ConvertedValue(applied) = None
         THEN << [col |-> col, msg |-> "Missing or invalid", raw |-> raw] >>
         ELSE << >>)]

\* the converter applied to the raw value (lines 119-121)
Applied(col, kind, raw) == Recorded(col, raw, Convert(kind, raw))

\* one pass of the loop (lines 115-131)
Conversion(r, i) ==
    Applied(COLUMN_DEFS[i][1], COLUMN_DEFS[i][2], RawValue(r, COLUMN_DEFS[i][1]))

\* the passes for columns i.., in declaration order
RECURSIVE Conversions(_, _)
Conversions(r, i) ==
    IF i > Len(COLUMN_DEFS) THEN << >>
    ELSE <<Conversion(r, i)>> \o Conversions(r, i + 1)

RECURSIVE Errors(_, _)
Errors(cs, i) ==
    IF i > Len(cs) THEN << >> ELSE cs[i].errors \o Errors(cs, i + 1)

\* is_valid, error_msg and the two dicts (lines 133-136)
Returned(cs, errors) ==
    [converted |-> [col \in ColumnNames |-> cs[ColumnIndex[col]].value],
     is_valid |-> (Len(errors) = 0),
     error_msg |-> IF errors # << >> THEN [tag |-> "Str", lines |-> errors] ELSE None,
     raw_values |-> [col \in ColumnNames |-> cs[ColumnIndex[col]].raw]]

Collected(cs) == Returned(cs, Errors(cs, 1))

\* returns (converted_row, is_valid, error_msg, raw_values)
validate_and_convert_row(row_num, r) == Collected(Conversions(r, 1))

-----------------------------------------------------------------------------
(* Inputs *)

\* every text of at most n characters
RECURSIVE TextsUpTo(_)
TextsUpTo(n) ==
    IF n = 0 THEN {<< >>}
    ELSE LET shorter == TextsUpTo(n - 1)
         IN  shorter \cup {Append(t, c) : t \in {u \in shorter : Len(u) = n - 1}, c \in Chars}

\* a text one character longer than the nvarchar(50) columns hold
LongText == [i \in 1..(StrWidth + 1) |-> IF i > StrWidth THEN "f" ELSE "a"]

Texts == TextsUpTo(MaxLen) \cup {LongText}

\* a listing whose every column converts
GoodRecord ==
    [price |-> <<"2", "5">>, price_per_meter |-> <<"5", ",", "5">>,
     offer_type |-> <<"a">>, floor |-> <<"2">>, area |-> <<"6", "0">>,
     rooms |-> <<"2">>, offer_type_of_building |-> <<"f">>, market |-> <<"n">>,
     city_name |-> <<"a", " ", "a">>, voivodeship |-> <<"i">>, month |-> <<"a">>,
     year |-> <<"2", "0">>, population |-> <<"5", "0">>,
     longitude |-> <<"2", ".", "5">>, latitude |-> <<" ", "5", "2">>]

\* cells that replace a column of GoodRecord; a column may also be absent
BadCells ==
    {<< >>, <<" ">>, <<"a">>, <<"i", "n", "f">>, <<"2", "5", "6">>}

\* GoodRecord with the columns of `cols` replaced by `cells`, or dropped
Damaged(cols, cells, dropped) ==
    [col \in ColumnNames \ dropped |->
        IF col \in cols THEN cells[col] ELSE GoodRecord[col]]

\* the raw records of the row harness: GoodRecord damaged in at most
\* MaxBadCols columns
IsRawRecord(r) ==
    \E cols \in {S \in SUBSET ColumnNames : Cardinality(S) <= MaxBadCols} :
        \E dropped \in SUBSET cols :
            \E cells \in [cols \ dropped -> BadCells] :
                r = Damaged(cols, cells, dropped)

-----------------------------------------------------------------------------
(* Idle values of the three groups of variables *)

ConvIdle == value = << >> /\ conv = "" /\ conv_result = None
RowIdle == row = GoodRecord /\ vresult = None
MainIdle ==
    /\ pc = "idle" /\ conn = "none" /\ exit_code = -1
    /\ csv_file = None /\ rows = << >> /\ idx = 0
    /\ inserted = 0 /\ rejected = 0 /\ rejected_samples = << >>
    /\ values = << >> /\ executed = << >> /\ sink_failures = 0
    /\ commits = 0 /\ summary = << >>

-----------------------------------------------------------------------------
(* Converter harness: one converter applied to one raw text *)

InitConv == value \in Texts /\ conv = "" /\ conv_result = None /\ RowIdle /\ MainIdle

ApplyFloat ==
    /\ conv = ""
    /\ conv' = "float" /\ conv_result' = _parse_float(value)
    /\ UNCHANGED <<value, row_vars, main_vars>>

ApplyInt ==
    /\ conv = ""
    /\ conv' = "int" /\ conv_result' = _parse_int(value)
    /\ UNCHANGED <<value, row_vars, main_vars>>

ApplyTinyint ==
    /\ conv = ""
    /\ conv' = "tinyint" /\ conv_result' = _parse_tinyint(value)
    /\ UNCHANGED <<value, row_vars, main_vars>>

ApplyTruncate ==
    /\ conv = ""
    /\ conv' = "str" /\ conv_result' = _truncate(value)
    /\ UNCHANGED <<value, row_vars, main_vars>>

NextConv == ApplyFloat \/ ApplyInt \/ ApplyTinyint \/ ApplyTruncate

SpecConv == InitConv /\ [][NextConv]_vars

-----------------------------------------------------------------------------
(* Row harness: validate_and_convert_row applied to one raw record *)

InitRow == IsRawRecord(row) /\ vresult = None /\ ConvIdle /\ MainIdle

ValidateRow ==
    /\ vresult = None
    /\ vresult' = validate_and_convert_row(2, row)
    /\ UNCHANGED <<row, conv_vars, main_vars>>

NextRow == ValidateRow

SpecRow == InitRow /\ [][NextRow]_vars

-----------------------------------------------------------------------------
(* main(): the input file *)

\* the records the input file is made of
RowKinds ==
    { GoodRecord,
      [GoodRecord EXCEPT !.price = << >>],
      [GoodRecord EXCEPT !.floor = <<"i", "n", "f">>],
      [GoodRecord EXCEPT !.floor = <<"a">>] }

\* a file repeats one record ("cycle" of one), alternates two ("cycle" of
\* two), or has one record followed by repetitions of another ("head")
Patterns ==
    {[shape |-> "cycle", recs |-> <<k>>] : k \in RowKinds}
        \cup {[shape |-> sh, recs |-> pr] :
                 sh \in {"cycle", "head"},
                 pr \in {qr \in RowKinds \X RowKinds : qr[1] # qr[2]}}

\* the input file: absent, not UTF-8, or n data lines after the header
Files ==
    {[status |-> "missing"], [status |-> "undecodable"]}
        \cup {[status |-> "ok", pattern |-> p, n |-> n] : p \in Patterns, n \in 0..MaxRows}

\* the records csv.DictReader yields for the data lines of file f
DictReader(f) ==
    [i \in 1..f.n |->
        IF f.pattern.shape = "cycle"
        THEN f.pattern.recs[((i - 1) % Len(f.pattern.recs)) + 1]
        ELSE IF i = 1 THEN f.pattern.recs[1] ELSE f.pattern.recs[Len(f.pattern.recs)]]

\* enumerate(reader) left at its default start
EnumerateFromZero(lines) == [i \in 1..Len(lines) |-> <<i - 1, lines[i]>>]

\* for i, row in enumerate(reader, start=2): rows.append((i, row))
Enumerate(lines) == [i \in 1..Len(lines) |-> <<i + 1, lines[i]>>]

-----------------------------------------------------------------------------
(* main(): connection and scripts *)

Init ==
    /\ ConvIdle /\ RowIdle
    /\ pc = "connect" /\ conn = "none" /\ exit_code = -1
    /\ csv_file \in Files
    /\ rows = << >> /\ idx = 0
    /\ inserted = 0 /\ rejected = 0 /\ rejected_samples = << >>
    /\ values = << >> /\ executed = << >> /\ sink_failures = 0
    /\ commits = 0 /\ summary = << >>

\* except pyodbc.Error / except Exception: print the error, sys.exit(1)
Fatal ==
    /\ pc' = "exited"
    /\ exit_code' = 1
    /\ UNCHANGED conn

loop_vars == <<rows, idx, inserted, rejected, rejected_samples, values, executed,
               sink_failures, commits, summary>>

\* conn = pyodbc.connect(conn_string)
Connect ==
    /\ pc = "connect"
    /\ conn' = "open"
    /\ pc' = "session"
    /\ UNCHANGED <<exit_code, csv_file, loop_vars, conv_vars, row_vars>>

ConnectFails ==
    /\ pc = "connect"
    /\ Fatal
    /\ UNCHANGED <<csv_file, loop_vars, conv_vars, row_vars>>

\* cursor = conn.cursor(); the three SET statements; conn.commit()
SessionSettings ==
    /\ pc = "session"
    /\ pc' = "setup_script"
    /\ UNCHANGED <<conn, exit_code, csv_file, loop_vars, conv_vars, row_vars>>

SessionSettingsFail ==
    /\ pc = "session"
    /\ Fatal
    /\ UNCHANGED <<csv_file, loop_vars, conv_vars, row_vars>>

Scripts == {"setup_script", "schema_script", "data_script"}

AfterScript(script) ==
    CASE script = "setup_script" -> "read_csv"
      [] script = "schema_script" -> "data_script"
      [] script = "data_script" -> "close"

\* execute_sql_file: every batch executed and committed
ExecuteSqlFile ==
    /\ pc \in Scripts
    /\ pc' = AfterScript(pc)
    /\ UNCHANGED <<conn, exit_code, csv_file, loop_vars, conv_vars, row_vars>>

\* execute_sql_file: the script is missing, or a batch or the commit raises
ExecuteSqlFileFails ==
    /\ pc \in Scripts
    /\ Fatal
    /\ UNCHANGED <<csv_file, loop_vars, conv_vars, row_vars>>

\* rows = read_csv(CSV_FILE)
ReadCsv ==
    /\ pc = "read_csv"
    /\ csv_file.status = "ok"
    /\ rows' = Enumerate(DictReader(csv_file))
    /\ pc' = "insert_rows"
    /\ UNCHANGED <<conn, exit_code, csv_file, idx, inserted, rejected, rejected_samples,
                   values, executed, sink_failures, commits, summary, conv_vars, row_vars>>

\* read_csv raises FileNotFoundError or UnicodeDecodeError
ReadCsvFails ==
    /\ pc = "read_csv"
    /\ csv_file.status # "ok"
    /\ Fatal
    /\ UNCHANGED <<csv_file, loop_vars, conv_vars, row_vars>>

\* cursor.close(); conn.close(); main() returns
Close ==
    /\ pc = "close"
    /\ conn' = "closed"
    /\ pc' = "done"
    /\ exit_code' = 0
    /\ UNCHANGED <<csv_file, loop_vars, conv_vars, row_vars>>

-----------------------------------------------------------------------------
(* insert_rows *)

SampleCap == 20
DisplayWidth == 100

\* validate_and_convert_row does not read row_num: its result on the records
\* the input files are made of, computed once
Validation == [k \in RowKinds |-> validate_and_convert_row(2, k)]

\* the row the loop is about to consume, and its validation (line 148)
row_num == rows[idx + 1][1]
Validated == Validation[rows[idx + 1][2]]

\* the sample appended while len(rejected_samples) <= 20
WithSampleOffByOne(samples, n, v) ==
    IF Len(samples) <= SampleCap
    THEN Append(samples, [row |-> n, errors |-> v.error_msg, raw_values |-> v.raw_values])
    ELSE samples

\* if len(rejected_samples) < 20: rejected_samples.append({...})
WithSample(samples, n, v) ==
    IF Len(samples) < SampleCap
    THEN Append(samples, [row |-> n, errors |-> v.error_msg, raw_values |-> v.raw_values])
    ELSE samples

\* the values tuple of the INSERT, in the order of its column list
ValuesOf(converted) == [i \in 1..Len(COLUMN_DEFS) |-> converted[COLUMN_DEFS[i][1]]]

\* the loop without its validity check
SubmitsAlways(v) == TRUE

\* whether the loop submits the validated row to the Sink (if not is_valid: continue)
Submits(v) == v.is_valid

\* an iteration on a row that fails validation (lines 150-158)
RejectRow ==
    /\ pc = "insert_rows"
    /\ idx < Len(rows)
    /\ ~Submits(Validated)
    /\ rejected_samples' = WithSample(rejected_samples, row_num, Validated)
    /\ rejected' = rejected + 1
    /\ idx' = idx + 1
    /\ UNCHANGED <<pc, conn, exit_code, csv_file, rows, inserted, values, executed,
                   sink_failures, commits, summary, conv_vars, row_vars>>

\* an insert followed by a commit of its own
InsertRowCommitting ==
    /\ pc = "insert_rows"
    /\ idx < Len(rows)
    /\ Submits(Validated)
    /\ values' = ValuesOf(Validated.converted)
    /\ executed' = Append(executed, row_num)
    /\ inserted' = inserted + 1
    /\ commits' = commits + 1
    /\ idx' = idx + 1
    /\ UNCHANGED <<pc, conn, exit_code, csv_file, rows, rejected, rejected_samples,
                   sink_failures, summary, conv_vars, row_vars>>

\* an iteration whose cursor.execute succeeds (lines 160-189)
InsertRow ==
    /\ pc = "insert_rows"
    /\ idx < Len(rows)
    /\ Submits(Validated)
    /\ values' = ValuesOf(Validated.converted)
    /\ executed' = Append(executed, row_num)
    /\ inserted' = inserted + 1
    /\ idx' = idx + 1
    /\ UNCHANGED <<pc, conn, exit_code, csv_file, rows, rejected, rejected_samples,
                   sink_failures, commits, summary, conv_vars, row_vars>>

\* the except branch that forgets to count the row
InsertRowFailsUncounted ==
    /\ pc = "insert_rows"
    /\ idx < Len(rows)
    /\ Submits(Validated)
    /\ values' = ValuesOf(Validated.converted)
    /\ executed' = Append(executed, row_num)
    /\ sink_failures' = sink_failures + 1
    /\ idx' = idx + 1
    /\ UNCHANGED <<pc, conn, exit_code, csv_file, rows, inserted, rejected,
                   rejected_samples, commits, summary, conv_vars, row_vars>>

\* cursor.execute raising with no try around it
InsertRowFailsAborts ==
    /\ pc = "insert_rows"
    /\ idx < Len(rows)
    /\ Submits(Validated)
    /\ values' = ValuesOf(Validated.converted)
    /\ executed' = Append(executed, row_num)
    /\ sink_failures' = sink_failures + 1
    /\ Fatal
    /\ UNCHANGED <<csv_file, rows, idx, inserted, rejected, rejected_samples,
                   commits, summary, conv_vars, row_vars>>

\* an iteration whose cursor.execute raises (lines 160-192)
InsertRowFails ==
    /\ pc = "insert_rows"
    /\ idx < Len(rows)
    /\ Submits(Validated)
    /\ values' = ValuesOf(Validated.converted)
    /\ executed' = Append(executed, row_num)
    /\ rejected' = rejected + 1
    /\ sink_failures' = sink_failures + 1
    /\ idx' = idx + 1
    /\ UNCHANGED <<pc, conn, exit_code, csv_file, rows, inserted, rejected_samples,
                   commits, summary, conv_vars, row_vars>>

\* the loop is over: cursor.commit() (line 194)
Commit ==
    /\ pc = "insert_rows"
    /\ idx = Len(rows)
    /\ commits' = commits + 1
    /\ pc' = "summary"
    /\ UNCHANGED <<conn, exit_code, csv_file, rows, idx, inserted, rejected,
                   rejected_samples, values, executed, sink_failures, summary,
                   conv_vars, row_vars>>

\* cursor.commit() raises: insert_rows is left, main() exits
CommitFails ==
    /\ pc = "insert_rows"
    /\ idx = Len(rows)
    /\ commits' = commits + 1
    /\ Fatal
    /\ UNCHANGED <<csv_file, rows, idx, inserted, rejected, rejected_samples, values,
                   executed, sink_failures, summary, conv_vars, row_vars>>

\* one raw value of a sample as printed (lines 208-215)
Display(raw) ==
    IF raw = << >> THEN <<"[EMPTY]">>
    ELSE IF Len(raw) > DisplayWidth THEN SubSeq(raw, 1, DisplayWidth) \o <<"...">>
    ELSE raw

\* the summary and the sample of rejected rows (lines 196-215)
Report ==
    << [inserted |-> inserted, rejected |-> rejected, total |-> inserted + rejected] >>
    \o [i \in 1..Len(rejected_samples) |->
            [row |-> rejected_samples[i].row,
             errors |-> rejected_samples[i].errors,
             fields |-> [j \in 1..Len(REQUIRED_FIELDS) |->
                            Display(rejected_samples[i].raw_values[REQUIRED_FIELDS[j]])]]]

PrintSummary ==
    /\ pc = "summary"
    /\ summary' = Report
    /\ pc' = "schema_script"
    /\ UNCHANGED <<conn, exit_code, csv_file, rows, idx, inserted, rejected,
                   rejected_samples, values, executed, sink_failures, commits,
                   conv_vars, row_vars>>

-----------------------------------------------------------------------------

Next ==
    \/ Connect \/ ConnectFails
    \/ SessionSettings \/ SessionSettingsFail
    \/ ExecuteSqlFile \/ ExecuteSqlFileFails
    \/ ReadCsv \/ ReadCsvFails
    \/ RejectRow \/ InsertRow \/ InsertRowFails
    \/ Commit \/ CommitFails
    \/ PrintSummary
    \/ Close

Spec == Init /\ [][Next]_vars

-----------------------------------------------------------------------------
(* Scalar converters *)

\* C3: every scalar converter returns a typed value or None for every raw
\* text and never raises to its caller.
ConvertersNeverRaise == conv # "" => conv_result.tag # "Raise"

-----------------------------------------------------------------------------
(* Row validator *)

IsBlank(t) == \A i \in 1..Len(t) : t[i] = " "

\* what the column's own converter makes of the column's raw value
ColumnConverts(r, col) ==
    LET got == Convert(COLUMN_DEFS[ColumnIndex[col]][2], RawValue(r, col))
    IN  got.tag \notin {"None", "Raise"}

\* C2: a row is reported valid if and only if each of the 11 required columns
\* converts to a value; the non-required columns have no say in it.
ValidIffRequiredConvert ==
    vresult # None =>
        (vresult.is_valid <=> \A col \in Required : ColumnConverts(row, col))

\* C7: a column whose raw input is absent, empty or only whitespace is
\* converted to None, whatever the column's converter and whether or not the
\* column is required.
BlankConvertsToNone ==
    vresult # None =>
        \A col \in ColumnNames :
            (col \notin DOMAIN row \/ IsBlank(row[col])) => vresult.converted[col] = None

\* a whitespace-only cell in a string column and in a numeric column, validated
BlankCellsValidated ==
    /\ vresult # None
    /\ "market" \in DOMAIN row /\ row["market"] = <<" ">>
    /\ "price" \in DOMAIN row /\ row["price"] = <<" ">>

-----------------------------------------------------------------------------
(* Batch loader *)

\* positions of main() after insert_rows has returned
AfterInsertRows == {"schema_script", "data_script", "close", "done"}

SamplesBounded ==
    /\ Len(rejected_samples) <= SampleCap
    /\ Len(rejected_samples) <= rejected

\* more than 20 rows rejected by validation, 20 of them sampled
CapReached ==
    /\ rejected - sink_failures > SampleCap
    /\ Len(rejected_samples) = SampleCap

CommitOnceAtEnd ==
    /\ [](commits <= 1)
    /\ [](pc = "insert_rows" => commits = 0)
    /\ []((pc \in AfterInsertRows \/ summary # << >>) => commits = 1)
    /\ [][commits' # commits =>
            /\ pc = "insert_rows"
            /\ idx = Len(rows)
            /\ summary = << >>
            /\ UNCHANGED <<idx, inserted, rejected, executed>>
            /\ (pc' = "exited" => exit_code' = 1 /\ summary' = << >>)]_vars
    /\ [][pc = "exited" => UNCHANGED summary]_vars

\* a batch with several inserts committed and reported
CommittedAndReported ==
    /\ summary # << >>
    /\ commits = 1
    /\ inserted > 1
    /\ rejected > 0

\* row numbers of the rows among the first k that validation rejects
RECURSIVE ValidationRejects(_)
ValidationRejects(k) ==
    IF k = 0 THEN << >>
    ELSE IF Validation[rows[k][2]].is_valid
         THEN ValidationRejects(k - 1)
         ELSE Append(ValidationRejects(k - 1), rows[k][1])

\* C9: row i of the input carries row number i + 1; the samples are the
\* first min(20, n) of the n rows rejected by validation so far, in input
\* order with strictly increasing row numbers; a sample once recorded is
\* never removed or changed.
SamplesInInputOrder ==
    /\ [](\A i \in 1..Len(rows) : rows[i][1] = i + 1)
    /\ [](LET rej == ValidationRejects(idx)
              n == IF Len(rej) < SampleCap THEN Len(rej) ELSE SampleCap
          IN  /\ Len(rejected_samples) = n
              /\ \A i \in 1..n : rejected_samples[i].row = rej[i]
              /\ \A i \in 1..n : \A j \in 1..n :
                    i < j => rejected_samples[i].row < rejected_samples[j].row)
    /\ [][/\ Len(rejected_samples') >= Len(rejected_samples)
          /\ \A i \in 1..Len(rejected_samples) :
                rejected_samples'[i] = rejected_samples[i]]_vars

\* the cap is reached in a batch in which the Sink refused a row
CapReachedAfterSinkFailure ==
    /\ Len(rejected_samples) = SampleCap
    /\ rejected - sink_failures > SampleCap
    /\ sink_failures > 0
    /\ rejected_samples[1].row > 2

\* C10: the Sink's insert is only ever called for a valid row: every values
\* tuple handed to it has a value in each of the 11 required columns, and an
\* iteration on a row that fails validation calls no insert.
OnlyValidSubmitted ==
    /\ [](\A col \in Required :
            values # << >> => values[ColumnIndex[col]] # None)
    /\ [](\A i \in 1..Len(executed) : Validation[rows[executed[i] - 1][2]].is_valid)
    /\ [][(idx' # idx /\ ~Validation[rows[idx + 1][2]].is_valid) =>
            UNCHANGED <<values, executed, inserted, sink_failures>>]_vars

\* rows were submitted and rows were rejected by validation
SubmittedAmongRejects ==
    /\ executed # << >>
    /\ rejected - sink_failures > 1
    /\ Len(executed) > 1

-----------------------------------------------------------------------------
(* Connection *)

\* C6: once acquired, the connection is closed on every exit path of main().
ConnectionReleased ==
    (pc \in {"done", "exited"} /\ conn # "none") => conn = "closed"

====
